---- MODULE Spec2Model ----
(***************************************************************************)
(* File-level data skipping of kernel/src/scan/data_skipping.rs:           *)
(* the predicate rewriter (commute, as_data_skipping_predicate) and the    *)
(* DataSkippingFilter (new, apply).                                        *)
(*                                                                         *)
(* Expressions are records tagged like the variants of Expr.  Option is    *)
(* modelled by the record None next to the bare value.  A nullable value   *)
(* is a set with at most one element: {} is null, {v} is the value v.      *)
(* A record batch is [schema |-> set of column paths, rows |-> sequence    *)
(* of functions from column path to value].                                *)
(***************************************************************************)
EXTENDS Integers, Sequences, FiniteSets, TLC

VARIABLES
    table_schema,   \* the table schema handed to new: sequence of field names
    predicate,      \* the query predicate handed to new: None or an expression
    actions,        \* the batch of file actions handed to apply
    filter,         \* what new returned: Unbuilt, None, or the filter
    result,         \* what apply returned: Pending, or its outcome
    rewritten,      \* what as_data_skipping_predicate returned: Pending, None or an expression
    pc              \* position of the caller

vars == <<table_schema, predicate, actions, filter, result, rewritten, pc>>

-----------------------------------------------------------------------------
(* Bounds of the model *)

\* column values range over 0..MaxVal
MaxVal == 2
\* a conjunction or disjunction of the generated predicates has at most MaxOperands operands
MaxOperands == 2
\* a batch of the scan scenario has at most MaxFiles rows
MaxFiles == 2

\* the literal of the generated comparisons (the literal of test_rewrite_basic_comparison)
Lit == 1

-----------------------------------------------------------------------------
(* Option, nullable values *)

None == [tag |-> "None"]
Unbuilt == [tag |-> "Unbuilt"]
Pending == [tag |-> "Pending"]
\* Option<BinaryOperator>::None and the absence of a statistics column
NoOp == "None"

Null == {}
ValOf(x) == CHOOSE v \in x : TRUE

-----------------------------------------------------------------------------
(* Expressions: crate::expressions::Expression and its constructors *)

Column(n) == [tag |-> "Column", name |-> n]
Literal(v) == [tag |-> "Literal", val |-> v]
Binary(o, l, r) == [tag |-> "BinaryOperation", op |-> o, left |-> l, right |-> r]
Variadic(o, es) == [tag |-> "VariadicOperation", op |-> o, exprs |-> es]
and_from(es) == Variadic("And", es)
or_from(es) == Variadic("Or", es)
lt(l, r) == Binary("LessThan", l, r)
le(l, r) == Binary("LessThanOrEqual", l, r)
gt(l, r) == Binary("GreaterThan", l, r)
ge(l, r) == Binary("GreaterThanOrEqual", l, r)
is_null(e) == [tag |-> "UnaryOperation", op |-> "IsNull", expr |-> e]
null_if(e, c) == [tag |-> "NullIf", expr |-> e, if_expr |-> c]
struct_expr(es) == [tag |-> "Struct", exprs |-> es]

ComparisonOps ==
    {"LessThan", "LessThanOrEqual", "GreaterThan", "GreaterThanOrEqual", "Equal", "NotEqual"}
ArithmeticOps == {"Plus", "Minus", "Multiply", "Divide"}
BinaryOps == ComparisonOps \cup ArithmeticOps
VariadicOps == {"And", "Or"}

\* format!("{}.{}", stats_col, col)
Format(stats, col) == stats \o "." \o col

-----------------------------------------------------------------------------
(* The predicate rewriter *)

commute_identity(op) == op

\* fn commute: <op2> such that B <op2> A is equivalent to A <op> B
commute(op) ==
    CASE op = "GreaterThan" -> "LessThan"
      [] op = "GreaterThanOrEqual" -> "LessThanOrEqual"
      [] op = "LessThan" -> "GreaterThan"
      [] op = "LessThanOrEqual" -> "GreaterThanOrEqual"
      [] op \in {"Equal", "NotEqual", "Plus", "Multiply"} -> op
      [] OTHER -> NoOp

stats_col_swapped(op) ==
    CASE op \in {"LessThan", "LessThanOrEqual"} -> "maxValues"
      [] op \in {"GreaterThan", "GreaterThanOrEqual"} -> "minValues"
      [] OTHER -> NoOp

\* let stats_col = match op { .. }: the statistics column of a range comparison
stats_col(op) ==
    CASE op \in {"LessThan", "LessThanOrEqual"} -> "minValues"
      [] op \in {"GreaterThan", "GreaterThanOrEqual"} -> "maxValues"
      [] OTHER -> NoOp

\* the Equal arm: the two comparisons whose conjunction is rewritten
equal_exprs(col, val) ==
    <<le(Column(col), Literal(val)), le(Literal(val), Column(col))>>

\* the NotEqual arm
not_equal_rewrite(col, val) ==
    or_from(<<gt(Column(Format("minValues", col)), Literal(val)),
              lt(Column(Format("maxValues", col)), Literal(val))>>)

\* Iterator::filter_map over the rewritten operands: the Some results, in order
RECURSIVE filter_map(_)
filter_map(rs) ==
    IF rs = <<>> THEN <<>>
    ELSE IF Head(rs) = None THEN filter_map(Tail(rs))
    ELSE <<Head(rs)>> \o filter_map(Tail(rs))

and_rewrite_all_or_nothing(rs) ==
    IF \E i \in 1..Len(rs) : rs[i] = None THEN None ELSE and_from(rs)

and_rewrite_reject_empty(rs) ==
    IF filter_map(rs) = <<>> THEN None ELSE and_from(filter_map(rs))

\* the And arm, given the rewrites of the operands
and_rewrite(rs) == and_from(filter_map(rs))

or_rewrite_dropping(rs) == or_from(filter_map(rs))

\* the Or arm, given the rewrites of the operands: collect::<Option<Vec<_>>>()?
or_rewrite(rs) ==
    IF \E i \in 1..Len(rs) : rs[i] = None THEN None ELSE or_from(rs)

RECURSIVE as_data_skipping_predicate(_)
as_data_skipping_predicate(expr) ==
    IF expr.tag = "BinaryOperation" THEN
        LET l == expr.left
            r == expr.right
            lit_left == l.tag = "Literal" /\ r.tag = "Column"
            op == IF lit_left THEN commute(expr.op) ELSE expr.op
            col == IF lit_left THEN r.name ELSE l.name
            val == IF lit_left THEN l.val ELSE r.val
        IN  IF ~(lit_left \/ (l.tag = "Column" /\ r.tag = "Literal")) THEN None
            ELSE IF op = NoOp THEN None
            ELSE IF op = "Equal" THEN
                as_data_skipping_predicate(and_from(equal_exprs(col, val)))
            ELSE IF op = "NotEqual" THEN not_equal_rewrite(col, val)
            ELSE IF stats_col(op) = NoOp THEN None
            ELSE Binary(op, Column(Format(stats_col(op), col)), Literal(val))
    ELSE IF expr.tag = "VariadicOperation" /\ expr.op = "And" THEN
        and_rewrite([i \in 1..Len(expr.exprs) |-> as_data_skipping_predicate(expr.exprs[i])])
    ELSE IF expr.tag = "VariadicOperation" /\ expr.op = "Or" THEN
        or_rewrite([i \in 1..Len(expr.exprs) |-> as_data_skipping_predicate(expr.exprs[i])])
    ELSE None

-----------------------------------------------------------------------------
(* Expression evaluation: the engine's ExpressionEvaluator, the JSON       *)
(* handler and the columnar filter, at their interface boundary.           *)
(* Booleans are three-valued: {TRUE}, {FALSE} and Null.                    *)

\* Expression::references: the column names an expression mentions
RECURSIVE references(_)
references(expr) ==
    CASE expr.tag = "Column" -> {expr.name}
      [] expr.tag = "Literal" -> {}
      [] expr.tag = "BinaryOperation" -> references(expr.left) \cup references(expr.right)
      [] expr.tag = "UnaryOperation" -> references(expr.expr)
      [] expr.tag = "NullIf" -> references(expr.expr) \cup references(expr.if_expr)
      [] expr.tag \in {"VariadicOperation", "Struct"} ->
            UNION {references(expr.exprs[i]) : i \in 1..Len(expr.exprs)}
      [] OTHER -> {}

Compare(op, x, y) ==
    CASE op = "LessThan" -> x < y
      [] op = "LessThanOrEqual" -> x <= y
      [] op = "GreaterThan" -> x > y
      [] op = "GreaterThanOrEqual" -> x >= y
      [] op = "Equal" -> x = y
      [] op = "NotEqual" -> x # y

\* AND of three-valued booleans; the conjunction of no operands is true
KleeneAnd(vs) ==
    IF \E i \in 1..Len(vs) : vs[i] = {FALSE} THEN {FALSE}
    ELSE IF \E i \in 1..Len(vs) : vs[i] = Null THEN Null
    ELSE {TRUE}

\* OR of three-valued booleans
KleeneOr(vs) ==
    IF \E i \in 1..Len(vs) : vs[i] = {TRUE} THEN {TRUE}
    ELSE IF \E i \in 1..Len(vs) : vs[i] = Null THEN Null
    ELSE {FALSE}

\* The value of an expression on one row of a batch
RECURSIVE evaluate_expression(_, _)
evaluate_expression(expr, row) ==
    CASE expr.tag = "Column" -> row[expr.name]
      [] expr.tag = "Literal" -> {expr.val}
      [] expr.tag = "BinaryOperation" ->
            LET x == evaluate_expression(expr.left, row)
                y == evaluate_expression(expr.right, row)
            IN  IF x = Null \/ y = Null THEN Null
                ELSE {Compare(expr.op, ValOf(x), ValOf(y))}
      [] expr.tag = "VariadicOperation" ->
            LET vs == [i \in 1..Len(expr.exprs) |-> evaluate_expression(expr.exprs[i], row)]
            IN  IF expr.op = "And" THEN KleeneAnd(vs) ELSE KleeneOr(vs)
      [] expr.tag = "UnaryOperation" ->
            {evaluate_expression(expr.expr, row) = Null}
      [] expr.tag = "NullIf" ->
            IF evaluate_expression(expr.if_expr, row) = {TRUE} THEN Null
            ELSE evaluate_expression(expr.expr, row)
      [] expr.tag = "Struct" ->
            ("predicate" :> evaluate_expression(expr.exprs[1], row))

\* ExpressionHandler::get_evaluator(input_schema, expression, output_type)
get_evaluator(input_schema, expression, output_type) ==
    [input_schema |-> input_schema, expression |-> expression, output_type |-> output_type]

\* ExpressionEvaluator::evaluate: one value per row.  The evaluator resolves the columns
\* of its expression by name in the batch it is given: the evaluation fails when the
\* expression names a column the batch does not have.  The input schema the evaluator
\* was compiled against is kept in the evaluator and compared by C10, not enforced here.
evaluate(evaluator, batch) ==
    IF ~(references(evaluator.expression) \subseteq batch.schema) THEN [ok |-> FALSE]
    ELSE [ok |-> TRUE,
          column |-> [i \in 1..Len(batch.rows) |->
                         evaluate_expression(evaluator.expression, batch.rows[i])]]

\* the leaf column paths of the statistics schema
Paths(stats_schema) ==
    {Format("minValues", stats_schema.minValues[i]) : i \in 1..Len(stats_schema.minValues)}
    \cup {Format("maxValues", stats_schema.maxValues[i]) : i \in 1..Len(stats_schema.maxValues)}

\* JsonHandler::parse_json: each statistics document decoded against the schema;
\* a field the document lacks, or holds as null, parses to null
parse_json(stats, stats_schema) ==
    [schema |-> Paths(stats_schema),
     rows |-> [i \in 1..Len(stats) |->
                  [p \in Paths(stats_schema) |->
                      IF p \in DOMAIN stats[i] THEN stats[i][p] ELSE Null]]]

\* arrow filter_record_batch: the rows whose selection entry is true, in order
RECURSIVE filter_rows(_, _)
filter_rows(rows, selection) ==
    IF rows = <<>> THEN <<>>
    ELSE (IF Head(selection) = {TRUE} THEN <<Head(rows)>> ELSE <<>>)
         \o filter_rows(Tail(rows), Tail(selection))

filter_record_batch(batch, selection) ==
    [schema |-> batch.schema, rows |-> filter_rows(batch.rows, selection)]

-----------------------------------------------------------------------------
(* DataSkippingFilter *)

PREDICATE_SCHEMA == {"predicate"}

FILTER_EXPR_unnormalised == Column("predicate")

FILTER_EXPR == is_null(null_if(Column("predicate"), Column("predicate")))

STATS_EXPR == Column("add.stats")

RECURSIVE select_fields(_, _)
select_fields(fields, names) ==
    IF fields = <<>> THEN <<>>
    ELSE (IF Head(fields) \in names THEN <<Head(fields)>> ELSE <<>>)
         \o select_fields(Tail(fields), names)

data_fields_unfiltered(schema, field_names) == schema

\* the fields of the table schema that the predicate references, in schema order
data_fields(schema, field_names) == select_fields(schema, field_names)

\* DataSkippingFilter::new
new(schema, pred) ==
    IF pred = None THEN None
    ELSE LET field_names == references(pred)
             fields == data_fields(schema, field_names)
             stats_schema == [minValues |-> fields, maxValues |-> fields]
             skip == as_data_skipping_predicate(pred)
         IN  IF fields = <<>> THEN None
             ELSE IF skip = None THEN None
             ELSE [tag |-> "Some",
                   stats_schema |-> stats_schema,
                   skipping_evaluator |->
                       get_evaluator(Paths(stats_schema), struct_expr(<<skip>>), PREDICATE_SCHEMA),
                   filter_evaluator |->
                       get_evaluator(Paths(stats_schema), FILTER_EXPR, "BOOLEAN"),
                   select_stats_evaluator |->
                       get_evaluator(Paths(stats_schema), STATS_EXPR, "STRING")]

\* one evaluation of a compiled evaluator: the schema it was compiled against and
\* the schema of the batch it was given
Evaluation(name, evaluator, batch) ==
    [evaluator |-> name, compiled |-> evaluator.input_schema, given |-> batch.schema]

\* DataSkippingFilter::apply
apply(self, batch) ==
    LET stats == evaluate(self.select_stats_evaluator, batch)
        parsed_stats == parse_json(stats.column, self.stats_schema)
        skipped == evaluate(self.skipping_evaluator, parsed_stats)
        skipping_predicate == [schema |-> PREDICATE_SCHEMA, rows |-> skipped.column]
        skipping_vector == evaluate(self.filter_evaluator, skipping_predicate)
        e1 == Evaluation("select_stats", self.select_stats_evaluator, batch)
        e2 == Evaluation("skipping", self.skipping_evaluator, parsed_stats)
        e3 == Evaluation("filter", self.filter_evaluator, skipping_predicate)
    IN  IF ~stats.ok THEN [ok |-> FALSE, evaluations |-> <<e1>>]
        ELSE IF ~skipped.ok THEN [ok |-> FALSE, evaluations |-> <<e1, e2>>]
        ELSE IF ~skipping_vector.ok THEN [ok |-> FALSE, evaluations |-> <<e1, e2, e3>>]
        ELSE [ok |-> TRUE,
              evaluations |-> <<e1, e2, e3>>,
              skipping_predicate |-> skipped.column,
              skipping_vector |-> skipping_vector.column,
              batch |-> filter_record_batch(batch, skipping_vector.column)]

-----------------------------------------------------------------------------
(* Inputs: table schemas, predicates, file actions *)

Cols == {"a", "b"}
Values == 0..MaxVal

Schemas == {<<"a">>, <<"a", "b">>}

Leaves == {Column(c) : c \in Cols} \cup {Literal(v) : v \in Values}

\* every binary operation over two leaves
Binaries == {Binary(op, l, r) : op \in BinaryOps, l \in Leaves, r \in Leaves}

\* binary operations between a column and a literal, in either order, and between two columns
Atoms ==
    {Binary(op, Column(c), Literal(v)) : op \in BinaryOps, c \in Cols, v \in Values}
    \cup {Binary(op, Literal(v), Column(c)) : op \in BinaryOps, c \in Cols, v \in Values}
    \cup {Binary(op, Column("a"), Column("b")) : op \in BinaryOps}

\* the operands of the generated conjunctions and disjunctions
OperandAtoms ==
    {Binary(op, Column("a"), Literal(Lit)) : op \in {"LessThan", "Equal", "NotEqual", "Plus"}}
    \cup {Binary("GreaterThanOrEqual", Literal(Lit), Column("b"))}

NestedAtoms ==
    {Binary(op, Column("a"), Literal(Lit)) : op \in {"LessThan", "Plus"}}
    \cup {Binary("GreaterThanOrEqual", Literal(Lit), Column("b"))}

\* the sequences over S of length lo..hi
SeqsOf(S, lo, hi) == UNION {[1..n -> S] : n \in lo..hi}

\* A conjunction may have no operand (its value is true).  The disjunctions handed to
\* new have at least one operand: no value is specified for a disjunction of none.
\* The rewriter alone is also given the disjunction of no operands (Expressions).
Conjunctions == {and_from(es) : es \in SeqsOf(OperandAtoms, 0, MaxOperands)}
Disjunctions == {or_from(es) : es \in SeqsOf(OperandAtoms, 1, MaxOperands)}

\* a conjunction or disjunction with a nested conjunction or disjunction as operand
Nested ==
    {Variadic(o1, <<t, Variadic(o2, <<x, y>>)>>) :
        o1 \in VariadicOps, o2 \in VariadicOps, t \in NestedAtoms, x \in NestedAtoms, y \in NestedAtoms}

\* the predicates handed to DataSkippingFilter::new
Predicates == Atoms \cup Conjunctions \cup Disjunctions \cup Nested

\* the expressions handed to as_data_skipping_predicate
Expressions ==
    Leaves \cup Binaries \cup Predicates
    \cup {or_from(<<>>)}
    \cup {Variadic(o, <<n>>) : o \in VariadicOps, n \in Nested}

\* the min/max of a column in one file: absent, or lo <= hi
Ranges == {<<>>} \cup {lh \in Values \X Values : lh[1] <= lh[2]}

StatsKeys == {"minValues", "maxValues"} \X Cols

\* the add.stats document of a file whose column ranges are r
StatsDocument(r) ==
    [p \in {Format(k[1], k[2]) : k \in StatsKeys} |->
        LET k == CHOOSE k \in StatsKeys : Format(k[1], k[2]) = p
        IN  IF r[k[2]] = <<>> THEN Null
            ELSE IF k[1] = "minValues" THEN {r[k[2]][1]} ELSE {r[k[2]][2]}]

FileAction(r) == ("add.stats" :> StatsDocument(r))

\* file actions with statistics for any of the columns
Files == {FileAction(r) : r \in [Cols -> Ranges]}

\* file actions with statistics for column a at most
FilesA == {FileAction(r) : r \in {q \in [Cols -> Ranges] : q["b"] = <<>>}}

RecordBatch(rows) == [schema |-> {"add.stats"}, rows |-> rows]

-----------------------------------------------------------------------------
(* The state machine *)

\* new is called once per query predicate
New ==
    /\ pc = "start"
    /\ filter' = new(table_schema, predicate)
    /\ pc' = "constructed"
    /\ UNCHANGED <<table_schema, predicate, actions, result, rewritten>>

\* apply is called on a batch when new returned a filter
Apply ==
    /\ pc = "constructed"
    /\ filter # None
    /\ result' = apply(filter, actions)
    /\ pc' = "applied"
    /\ UNCHANGED <<table_schema, predicate, actions, filter, rewritten>>

\* the rewriter alone, on one expression
Rewrite ==
    /\ pc = "rewrite"
    /\ rewritten' = as_data_skipping_predicate(predicate)
    /\ pc' = "rewritten"
    /\ UNCHANGED <<table_schema, predicate, actions, filter, result>>

\* one file per batch, any predicate
Init ==
    /\ table_schema \in Schemas
    /\ predicate \in {None} \cup Predicates
    /\ actions \in {RecordBatch(<<f>>) : f \in Files}
    /\ filter = Unbuilt
    /\ result = Pending
    /\ rewritten = Pending
    /\ pc = "start"

\* batches of several files, a single comparison on column a
InitScan ==
    /\ table_schema \in Schemas
    /\ predicate \in {None} \cup
            {Binary(op, Column("a"), Literal(v)) : op \in ComparisonOps, v \in Values}
    /\ actions \in {RecordBatch(rows) : rows \in SeqsOf(FilesA, 0, MaxFiles)}
    /\ filter = Unbuilt
    /\ result = Pending
    /\ rewritten = Pending
    /\ pc = "start"

InitRewrite ==
    /\ table_schema = <<>>
    /\ predicate \in Expressions
    /\ actions = RecordBatch(<<>>)
    /\ filter = Unbuilt
    /\ result = Pending
    /\ rewritten = Pending
    /\ pc = "rewrite"

Next == New \/ Apply

NextRewrite == Rewrite

Spec == Init /\ [][Next]_vars

SpecScan == InitScan /\ [][Next]_vars

SpecRewrite == InitRewrite /\ [][NextRewrite]_vars

-----------------------------------------------------------------------------
(* What the claims speak of *)

RangeOf(S) == {S[i] : i \in 1..Len(S)}

\* a predicate built from column/literal comparisons combined by AND and OR
RECURSIVE IsComparisonPredicate(_)
IsComparisonPredicate(p) ==
    CASE p.tag = "BinaryOperation" ->
            /\ p.op \in ComparisonOps
            /\ \/ p.left.tag = "Column" /\ p.right.tag = "Literal"
               \/ p.left.tag = "Literal" /\ p.right.tag = "Column"
      [] p.tag = "VariadicOperation" ->
            \A i \in 1..Len(p.exprs) : IsComparisonPredicate(p.exprs[i])
      [] OTHER -> FALSE

\* whether a data row (a value for every column) satisfies a comparison predicate
RECURSIVE Satisfies(_, _)
Satisfies(p, row) ==
    CASE p.tag = "BinaryOperation" ->
            IF p.left.tag = "Column"
            THEN Compare(p.op, row[p.left.name], p.right.val)
            ELSE Compare(p.op, p.left.val, row[p.right.name])
      [] p.tag = "VariadicOperation" ->
            IF p.op = "And"
            THEN \A i \in 1..Len(p.exprs) : Satisfies(p.exprs[i], row)
            ELSE \E i \in 1..Len(p.exprs) : Satisfies(p.exprs[i], row)

\* the statistics of column c in a file action
MinOf(file, c) == file["add.stats"][Format("minValues", c)]
MaxOf(file, c) == file["add.stats"][Format("maxValues", c)]

\* the data rows a file with these statistics may hold
RowsWithin(file) ==
    {row \in [Cols -> Values] :
        \A c \in Cols :
            /\ MinOf(file, c) # Null => ValOf(MinOf(file, c)) <= row[c]
            /\ MaxOf(file, c) # Null => row[c] <= ValOf(MaxOf(file, c))}

Applied == pc = "applied" /\ result.ok

\* the file actions of the input batch that apply left out of its output
Skipped == {f \in RangeOf(actions.rows) : f \notin RangeOf(result.batch.rows)}

\* C1: when apply leaves a file out of the pruned batch, no row within the file's
\* min/max ranges satisfies the predicate
C1_Soundness ==
    (Applied /\ IsComparisonPredicate(predicate)) =>
        \A f \in Skipped : \A row \in RowsWithin(f) : ~Satisfies(predicate, row)

RECURSIVE HasNotEqual(_)
HasNotEqual(p) ==
    CASE p.tag = "BinaryOperation" -> p.op = "NotEqual"
      [] p.tag = "VariadicOperation" -> \E i \in 1..Len(p.exprs) : HasNotEqual(p.exprs[i])
      [] OTHER -> FALSE

\* the files apply leaves out hold no matching row when the predicate has no != comparison
SoundWithoutNotEqual ==
    (Applied /\ IsComparisonPredicate(predicate) /\ ~HasNotEqual(predicate)) =>
        \A f \in Skipped : \A row \in RowsWithin(f) : ~Satisfies(predicate, row)

\* every column the predicate references has neither min nor max in the file's statistics
NullStats(f) ==
    \A c \in references(predicate) : MinOf(f, c) = Null /\ MaxOf(f, c) = Null

IsRangeComparison(p) ==
    /\ p # None
    /\ p.tag = "BinaryOperation"
    /\ p.op \in ComparisonOps \ {"NotEqual"}
    /\ p.left = Column("a")
    /\ p.right.tag = "Literal"

\* the file has no statistics for a, or some value of its range satisfies `a op v`
MayMatch(f, op, v) ==
    \/ MinOf(f, "a") = Null
    \/ \E x \in ValOf(MinOf(f, "a"))..ValOf(MaxOf(f, "a")) : Compare(op, x, v)

IsConjunction(p) == p # None /\ p.tag = "VariadicOperation" /\ p.op = "And"

\* the rewrites of the operands that are not None, in order
EligibleRewrites(p) ==
    LET Eligible(r) == r # None
    IN  SelectSeq([i \in 1..Len(p.exprs) |-> as_data_skipping_predicate(p.exprs[i])], Eligible)

C8_NoFilterExactly ==
    pc # "start" =>
        /\ filter = None <=>
            \/ predicate = None
            \/ ~(\E c \in RangeOf(table_schema) : c \in references(predicate))
            \/ as_data_skipping_predicate(predicate) = None
        /\ filter # None => filter.tag = "Some"

\* a predicate on a column of the schema that has no rewrite: no filter
C8_Witness ==
    /\ pc = "constructed"
    /\ predicate = Binary("Plus", Column("a"), Literal(1))
    /\ table_schema = <<"a">>
    /\ filter = None

\* C9: every statistics column the skip predicate references is a field of the
\* statistics schema
C9_StatsColumnsInSchema ==
    (pc # "start" /\ filter # None) =>
        references(filter.skipping_evaluator.expression) \subseteq Paths(filter.stats_schema)

\* C10: each evaluator is evaluated only on a batch of the schema it was compiled against
C10_EvaluatorsGetTheirSchema ==
    pc = "applied" =>
        \A i \in 1..Len(result.evaluations) :
            result.evaluations[i].compiled = result.evaluations[i].given

-----------------------------------------------------------------------------
(* The rewriter alone *)

\* the operator op2 with `v op c` equivalent to `c op2 v`
Commuted(op) ==
    CASE op = "LessThan" -> "GreaterThan"
      [] op = "GreaterThan" -> "LessThan"
      [] op = "LessThanOrEqual" -> "GreaterThanOrEqual"
      [] op = "GreaterThanOrEqual" -> "LessThanOrEqual"
      [] op \in {"Equal", "NotEqual"} -> op

\* the rewrite of `c op v` as the rewrite table gives it
Tabulated(op, c, v) ==
    LET min_col == Column("minValues." \o c)
        max_col == Column("maxValues." \o c)
    IN  CASE op \in {"LessThan", "LessThanOrEqual"} -> Binary(op, min_col, Literal(v))
          [] op \in {"GreaterThan", "GreaterThanOrEqual"} -> Binary(op, max_col, Literal(v))
          [] op = "Equal" ->
                Variadic("And", <<le(min_col, Literal(v)), ge(max_col, Literal(v))>>)
          [] op = "NotEqual" ->
                Variadic("Or", <<gt(min_col, Literal(v)), lt(max_col, Literal(v))>>)

IsComparison(p) == p.tag = "BinaryOperation" /\ p.op \in ComparisonOps

IsPartlyEligibleAnd(p) ==
    /\ p.tag = "VariadicOperation"
    /\ p.op = "And"
    /\ Len(p.exprs) = 2
    /\ as_data_skipping_predicate(p.exprs[1]) # None
    /\ as_data_skipping_predicate(p.exprs[2]) = None

\* C5 as stated: the rewrite of `A AND B` is the rewrite of A
C5_AndEqualsOperand ==
    (pc = "rewritten" /\ IsPartlyEligibleAnd(predicate)) =>
        rewritten = as_data_skipping_predicate(predicate.exprs[1])

\* C5 as amended: the rewrite of `A AND B` is the conjunction whose only operand is
\* the rewrite of A, which is also the rewrite of the one-operand conjunction of A
C5_AndKeepsEligibleOperand ==
    (pc = "rewritten" /\ IsPartlyEligibleAnd(predicate)) =>
        /\ rewritten = Variadic("And", <<as_data_skipping_predicate(predicate.exprs[1])>>)
        /\ rewritten = as_data_skipping_predicate(Variadic("And", <<predicate.exprs[1]>>))

\* `a < 1 AND a + 1` is rewritten as the conjunction of `minValues.a < 1` alone
C5_Witness ==
    /\ pc = "rewritten"
    /\ predicate = and_from(<<lt(Column("a"), Literal(1)), Binary("Plus", Column("a"), Literal(1))>>)
    /\ rewritten = Variadic("And", <<lt(Column("minValues.a"), Literal(1))>>)

\* an expression and the expressions nested in it
RECURSIVE SubExpressions(_)
SubExpressions(e) ==
    {e} \cup
    CASE e.tag = "BinaryOperation" -> SubExpressions(e.left) \cup SubExpressions(e.right)
      [] e.tag = "VariadicOperation" ->
            UNION {SubExpressions(e.exprs[i]) : i \in 1..Len(e.exprs)}
      [] OTHER -> {}

IsDisjunction(e) == e.tag = "VariadicOperation" /\ e.op = "Or"

\* the value r is what C6 says the rewrite of the disjunction e is
OrRewriteIs(e, r) ==
    LET rs == [i \in 1..Len(e.exprs) |-> as_data_skipping_predicate(e.exprs[i])]
    IN  IF \E i \in 1..Len(e.exprs) : rs[i] = None
        THEN r = None
        ELSE r = Variadic("Or", rs)

\* C6: the rewrite of a disjunction, at any depth, is None when the rewrite of an operand
\* is None, and otherwise the disjunction of the rewrites of all operands in order
C6_OrTotalEligibility ==
    pc = "rewritten" =>
        /\ IsDisjunction(predicate) => OrRewriteIs(predicate, rewritten)
        /\ \A e \in SubExpressions(predicate) :
            IsDisjunction(e) => OrRewriteIs(e, as_data_skipping_predicate(e))

\* `a < 1 OR a + 1` has no rewrite
C6_Witness ==
    /\ pc = "rewritten"
    /\ predicate = or_from(<<lt(Column("a"), Literal(1)), Binary("Plus", Column("a"), Literal(1))>>)
    /\ rewritten = None

====
